---- MODULE Spec2Model ----
(***************************************************************************)
(* Sentence Verification Engine of the Dictionary trainer                  *)
(* (src/grammar_online.py): tokenizer, morphological form generator,       *)
(* verb-form classifiers, phrase usage matcher, tense heuristic matcher    *)
(* and the check_sentence orchestrator with its call to the grammar        *)
(* service.                                                                *)
(*                                                                         *)
(* Python strings are TLA+ strings; a character is a string of length 1.   *)
(* Python lists are sequences, indexed from 0 in the operators that model  *)
(* an indexed access (Get, InRange).  A Python exception is an explicit    *)
(* outcome: the three-valued "True" / "False" / "IndexError" of the scan   *)
(* helpers and the field `raised` of the results.                          *)
(***************************************************************************)
EXTENDS Integers, Sequences, FiniteSets, TLC

VARIABLES
    op,             \* which entry point the state belongs to
    words,          \* the words the user typed, in order (input)
    sentence,       \* the sentence text handed to the engine
    required_word,  \* the required word / phrase
    tense,          \* the tense name handed to the engine
    tres,           \* what tense_heuristic_ok returned
    ures,           \* what used_word_in_sentence returned
    pc,             \* position of the check_sentence invocation
    used,           \* check_sentence local: used
    tense_ok,       \* check_sentence local: tense_ok
    tense_msg,      \* check_sentence local: tense_msg
    response,       \* answer of the grammar service to the outbound call
    posts,          \* number of outbound calls made by the invocation
    result,         \* what check_sentence returned (or that it raised)
    suffix,         \* punctuation appended to the sentence for a second call
    ures_suffixed,  \* what used_word_in_sentence returned for sentence + suffix
    base_arg,       \* the base handed to _simple_forms
    forms,          \* what _simple_forms returned
    threads,        \* the concurrent check_sentence invocations, one record each
    module_state,   \* the module-level tables IRREGULAR and OPTIONAL_TOKENS
    text_arg,       \* the text handed to _tokens
    toks_out,       \* what _tokens returned
    tok_arg,        \* the token handed to _looks_like_v2 / _looks_like_v3
    looks,          \* what the two classifiers returned
    toolkit,        \* the user interface running: "tk" (ui_app) or "qt" (ui_qt)
    nb_tab,         \* the tab the user works in: "words" or "sentences"
    words_tab,      \* WordsTab: current_topic, current, learned, result_labels
    sentences_tab,  \* SentencesTab: current_topic, current_words, used_words,
                    \* check_btn, last_matches, result_labels
    workers,        \* the check worker threads that are running
    after_queue,    \* callbacks posted to the main loop and not yet run
    applied_on,     \* the threads that have run _apply_check_results
    apply_error,    \* the exception the last handler ended with, "" if none
    ok_keys         \* keys of the words check_sentence has accepted a sentence for

punct_vars == <<suffix, ures_suffixed>>

forms_vars == <<base_arg, forms>>

conc_vars == <<threads, module_state>>

pure_vars == <<text_arg, toks_out, tok_arg, looks>>

ui_vars == <<toolkit, nb_tab, words_tab, sentences_tab, workers, after_queue,
             applied_on, apply_error, ok_keys>>

vars == <<op, words, sentence, required_word, tense, tres, ures, pc, used,
          tense_ok, tense_msg, response, posts, result, punct_vars,
          forms_vars, conc_vars, pure_vars, ui_vars>>

-----------------------------------------------------------------------------
(* Bounds of the model *)

MaxToks == 4

MaxSentToks == 3

-----------------------------------------------------------------------------
(* Strings *)

Char(s, i) == SubSeq(s, i, i)

endswith(s, suf) ==
    /\ Len(s) >= Len(suf)
    /\ SubSeq(s, Len(s) - Len(suf) + 1, Len(s)) = suf

UpperAlphabet == "ABCDEFGHIJKLMNOPQRSTUVWXYZ"

LowerAlphabet == "abcdefghijklmnopqrstuvwxyz"

UpperChars == {Char(UpperAlphabet, i) : i \in 1..Len(UpperAlphabet)}

LowerChars == {Char(LowerAlphabet, i) : i \in 1..Len(LowerAlphabet)}

LowerOf ==
    [c \in UpperChars |->
        Char(LowerAlphabet,
             CHOOSE i \in 1..Len(UpperAlphabet) : Char(UpperAlphabet, i) = c)]

lower_char(c) == IF c \in UpperChars THEN LowerOf[c] ELSE c

RECURSIVE lower(_)
lower(s) == IF s = "" THEN "" ELSE lower_char(Head(s)) \o lower(Tail(s))

Whitespace == {" ", "\t", "\n", "\r"}

RECURSIVE lstrip(_)
lstrip(s) ==
    IF s # "" /\ Head(s) \in Whitespace THEN lstrip(Tail(s)) ELSE s

RECURSIVE rstrip(_)
rstrip(s) ==
    IF s # "" /\ Char(s, Len(s)) \in Whitespace
    THEN rstrip(SubSeq(s, 1, Len(s) - 1))
    ELSE s

strip(s) == rstrip(lstrip(s))

\* str.split(sep) for a one-character separator: the pieces between the
\* separators, empty pieces kept.
RECURSIVE split_on(_, _, _, _)
split_on(s, sep, cur, acc) ==
    IF s = "" THEN Append(acc, cur)
    ELSE IF Head(s) = sep THEN split_on(Tail(s), sep, "", Append(acc, cur))
    ELSE split_on(Tail(s), sep, cur \o Head(s), acc)

split(s, sep) == split_on(s, sep, "", <<>>)

\* str.split() without argument: the maximal runs of non-whitespace.
RECURSIVE split_ws(_, _, _)
split_ws(s, cur, acc) ==
    IF s = "" THEN (IF cur = "" THEN acc ELSE Append(acc, cur))
    ELSE IF Head(s) \in Whitespace
         THEN split_ws(Tail(s), "", IF cur = "" THEN acc ELSE Append(acc, cur))
    ELSE split_ws(Tail(s), cur \o Head(s), acc)

RECURSIVE join(_, _)
join(parts, sep) ==
    IF parts = <<>> THEN ""
    ELSE IF Len(parts) = 1 THEN parts[1]
    ELSE parts[1] \o sep \o join(Tail(parts), sep)

Range(seq) == {seq[i] : i \in 1..Len(seq)}

\* Python list indexing, 0-based, negative indexes counted from the end.
InRange(lst, i) == i >= -Len(lst) /\ i < Len(lst)

Get(lst, i) == IF i >= 0 THEN lst[i + 1] ELSE lst[Len(lst) + i + 1]

-----------------------------------------------------------------------------
(* Constant tables *)

IRREGULAR ==
    [b \in {"be", "become", "begin", "break", "bring", "build", "buy",
            "catch", "choose", "come", "do", "drink", "drive", "eat", "fall",
            "feel", "find", "fly", "forget", "get", "give", "go", "have",
            "hear", "know", "leave", "lose", "make", "meet", "pay", "read",
            "run", "say", "see", "sell", "send", "sit", "sleep", "speak",
            "spend", "stand", "take", "teach", "tell", "think", "understand",
            "wear", "write"} |->
        CASE b = "be" -> <<"was/were", "been">>
          [] b = "become" -> <<"became", "become">>
          [] b = "begin" -> <<"began", "begun">>
          [] b = "break" -> <<"broke", "broken">>
          [] b = "bring" -> <<"brought", "brought">>
          [] b = "build" -> <<"built", "built">>
          [] b = "buy" -> <<"bought", "bought">>
          [] b = "catch" -> <<"caught", "caught">>
          [] b = "choose" -> <<"chose", "chosen">>
          [] b = "come" -> <<"came", "come">>
          [] b = "do" -> <<"did", "done">>
          [] b = "drink" -> <<"drank", "drunk">>
          [] b = "drive" -> <<"drove", "driven">>
          [] b = "eat" -> <<"ate", "eaten">>
          [] b = "fall" -> <<"fell", "fallen">>
          [] b = "feel" -> <<"felt", "felt">>
          [] b = "find" -> <<"found", "found">>
          [] b = "fly" -> <<"flew", "flown">>
          [] b = "forget" -> <<"forgot", "forgotten">>
          [] b = "get" -> <<"got", "got/gotten">>
          [] b = "give" -> <<"gave", "given">>
          [] b = "go" -> <<"went", "gone">>
          [] b = "have" -> <<"had", "had">>
          [] b = "hear" -> <<"heard", "heard">>
          [] b = "know" -> <<"knew", "known">>
          [] b = "leave" -> <<"left", "left">>
          [] b = "lose" -> <<"lost", "lost">>
          [] b = "make" -> <<"made", "made">>
          [] b = "meet" -> <<"met", "met">>
          [] b = "pay" -> <<"paid", "paid">>
          [] b = "read" -> <<"read", "read">>
          [] b = "run" -> <<"ran", "run">>
          [] b = "say" -> <<"said", "said">>
          [] b = "see" -> <<"saw", "seen">>
          [] b = "sell" -> <<"sold", "sold">>
          [] b = "send" -> <<"sent", "sent">>
          [] b = "sit" -> <<"sat", "sat">>
          [] b = "sleep" -> <<"slept", "slept">>
          [] b = "speak" -> <<"spoke", "spoken">>
          [] b = "spend" -> <<"spent", "spent">>
          [] b = "stand" -> <<"stood", "stood">>
          [] b = "take" -> <<"took", "taken">>
          [] b = "teach" -> <<"taught", "taught">>
          [] b = "tell" -> <<"told", "told">>
          [] b = "think" -> <<"thought", "thought">>
          [] b = "understand" -> <<"understood", "understood">>
          [] b = "wear" -> <<"wore", "worn">>
          [] b = "write" -> <<"wrote", "written">>]

OPTIONAL_TOKENS ==
    {"a", "an", "the", "to", "in", "on", "at", "of", "for", "with", "about",
     "from", "into", "it", "this", "that", "these", "those", "my", "your",
     "his", "her", "our", "their", "me", "him", "us", "them"}

TENSES ==
    <<"Present Simple", "Past Simple", "Future Simple",
      "Present Continuous", "Past Continuous", "Future Continuous",
      "Present Perfect", "Past Perfect", "Future Perfect",
      "Present Perfect Continuous", "Past Perfect Continuous",
      "Future Perfect Continuous">>

-----------------------------------------------------------------------------
(* _norm and _tokens *)

\* Mutant: the base is trimmed but not lower-cased.
_norm_case_kept(s) == join(split_ws(strip(s), "", <<>>), " ")

_norm(s) == join(split_ws(lower(strip(s)), "", <<>>), " ")

\* Mutant: digits belong to a token too.
TokenCharsWithDigits ==
    LowerChars \cup UpperChars \cup {"'"}
    \cup {"0", "1", "2", "3", "4", "5", "6", "7", "8", "9"}

TokenChars == LowerChars \cup UpperChars \cup {"'"}

\* re.findall(r"[a-zA-Z']+", ...): the maximal runs of token characters.
RECURSIVE findall_runs(_, _, _)
findall_runs(s, cur, acc) ==
    IF s = "" THEN (IF cur = "" THEN acc ELSE Append(acc, cur))
    ELSE IF Head(s) \in TokenChars
         THEN findall_runs(Tail(s), cur \o Head(s), acc)
    ELSE findall_runs(Tail(s), "", IF cur = "" THEN acc ELSE Append(acc, cur))

\* Mutant: the text is not lower-cased before the runs are taken.
_tokens_case_kept(text) == findall_runs(text, "", <<>>)

_tokens(text) == findall_runs(lower(text), "", <<>>)

-----------------------------------------------------------------------------
(* _simple_forms *)

Vowels == "aeiou"

char_in(c, s) == \E i \in 1..Len(s) : Char(s, i) = c

ends_with_any(b, sufs) == \E suf \in sufs : endswith(b, suf)

third_person_forms(b) ==
    (IF endswith(b, "y") /\ Len(b) > 2 /\ ~char_in(Char(b, Len(b) - 1), Vowels)
     THEN {SubSeq(b, 1, Len(b) - 1) \o "ies"} ELSE {})
    \cup (IF ends_with_any(b, {"s", "x", "z", "ch", "sh"})
          THEN {b \o "es"} ELSE {})
    \cup {b \o "s"}

past_forms(b) == IF endswith(b, "e") THEN {b \o "d"} ELSE {b \o "ed"}

\* Mutant: the final e is dropped after ee too.
ing_forms_no_ee(b) ==
    IF endswith(b, "e")
    THEN {SubSeq(b, 1, Len(b) - 1) \o "ing"}
    ELSE {b \o "ing"}

ing_forms(b) ==
    IF endswith(b, "e") /\ ~endswith(b, "ee")
    THEN {SubSeq(b, 1, Len(b) - 1) \o "ing"}
    ELSE {b \o "ing"}

\* Mutant: only the first alternate of each entry is added.
irregular_forms_first_only(b) ==
    IF b \in DOMAIN IRREGULAR
    THEN {_norm(split(IRREGULAR[b][1], "/")[1]),
          _norm(split(IRREGULAR[b][2], "/")[1])}
    ELSE {}

irregular_forms(b) ==
    IF b \in DOMAIN IRREGULAR
    THEN {_norm(f) : f \in Range(split(IRREGULAR[b][1], "/"))}
         \cup {_norm(f) : f \in Range(split(IRREGULAR[b][2], "/"))}
    ELSE {}

_simple_forms(base) ==
    LET b == _norm(base)
    IN  IF b = "" THEN {}
        ELSE {f \in {b} \cup third_person_forms(b) \cup past_forms(b)
                        \cup ing_forms(b) \cup irregular_forms(b) : f # ""}

-----------------------------------------------------------------------------
(* Verb-form classifiers *)

\* Mutant: the length of the token is not looked at.
_ends_with_ed_any_length(tok) == endswith(tok, "ed")

_ends_with_ed(tok) == endswith(tok, "ed") /\ Len(tok) > 3

\* [x.strip() for x in v.split("/")] of every entry, computed once.
V2Alternates ==
    [b \in DOMAIN IRREGULAR |->
        {strip(x) : x \in Range(split(IRREGULAR[b][1], "/"))}]

V3Alternates ==
    [b \in DOMAIN IRREGULAR |->
        {strip(x) : x \in Range(split(IRREGULAR[b][2], "/"))}]

_looks_like_v3(tok) ==
    \/ _ends_with_ed(tok)
    \/ \E b \in DOMAIN IRREGULAR : tok \in V3Alternates[b]

_looks_like_v2(tok) ==
    \/ _ends_with_ed(tok)
    \/ \E b \in DOMAIN IRREGULAR : tok \in V2Alternates[b]

-----------------------------------------------------------------------------
(* tense_heuristic_ok *)

Ret(ok, msg) == [raised |-> FALSE, ok |-> ok, msg |-> msg]

Raise(e) == [raised |-> TRUE, ok |-> FALSE, msg |-> e]

\* The token tests the helper loops of tense_heuristic_ok are made of.
Among(s) == [k |-> "in", s |-> s]

EndsIng == [k |-> "ing", s |-> {}]

IsV3 == [k |-> "v3", s |-> {}]

Holds(p, t) ==
    CASE p.k = "in" -> t \in p.s
      [] p.k = "ing" -> endswith(t, "ing")
      [] p.k = "v3" -> _looks_like_v3(t)

\* The condition of one loop iteration at index i: the tests joined by
\* `and`, left to right, test k reading toks[i + k - 1].
RECURSIVE cond_at(_, _, _, _)
cond_at(toks, i, tests, k) ==
    IF k > Len(tests) THEN "True"
    ELSE IF ~InRange(toks, i + k - 1) THEN "IndexError"
    ELSE IF ~Holds(tests[k], Get(toks, i + k - 1)) THEN "False"
    ELSE cond_at(toks, i, tests, k + 1)

\* for i in range(stop): if <tests at i>: return True  ...  return False
RECURSIVE scan(_, _, _, _)
scan(toks, stop, tests, i) ==
    IF i >= stop THEN "False"
    ELSE LET c == cond_at(toks, i, tests, 1)
         IN  IF c = "False" THEN scan(toks, stop, tests, i + 1) ELSE c

has_ing_after(toks, aux_set) ==
    scan(toks, Len(toks) - 1, <<Among(aux_set), EndsIng>>, 0)

has_have_v3(toks) ==
    scan(toks, Len(toks) - 1, <<Among({"have", "has"}), IsV3>>, 0)

has_had_v3(toks) ==
    scan(toks, Len(toks) - 1, <<Among({"had"}), IsV3>>, 0)

has_will_have_v3(toks) ==
    scan(toks, Len(toks) - 2, <<Among({"will"}), Among({"have"}), IsV3>>, 0)

\* Mutant: range(len(toks) - 1), one index too far for three tokens.
has_will_be_ing_long(toks) ==
    scan(toks, Len(toks) - 1, <<Among({"will"}), Among({"be"}), EndsIng>>, 0)

has_will_be_ing(toks) ==
    scan(toks, Len(toks) - 2, <<Among({"will"}), Among({"be"}), EndsIng>>, 0)

\* Mutant: range(len(toks) - 3), the last position is never tried.
has_have_been_ing_short(toks) ==
    scan(toks, Len(toks) - 3,
         <<Among({"have", "has"}), Among({"been"}), EndsIng>>, 0)

has_have_been_ing(toks) ==
    scan(toks, Len(toks) - 2,
         <<Among({"have", "has"}), Among({"been"}), EndsIng>>, 0)

has_had_been_ing(toks) ==
    scan(toks, Len(toks) - 2, <<Among({"had"}), Among({"been"}), EndsIng>>, 0)

has_will_have_been_ing(toks) ==
    scan(toks, Len(toks) - 3,
         <<Among({"will"}), Among({"have"}), Among({"been"}), EndsIng>>, 0)

future_simple(toks) ==
    IF "will" \in Range(toks)
    THEN Ret(TRUE, "Found 'will'.")
    ELSE Ret(FALSE, "Expected: will + V1.")

\* Mutant: the tokens are classified with _looks_like_v3.
past_simple_v3(toks) ==
    IF "did" \in Range(toks) THEN Ret(TRUE, "Found 'did'.")
    ELSE IF \E t \in Range(toks) : _looks_like_v3(t)
         THEN Ret(TRUE, "Found V2 marker (-ed or irregular V2).")
    ELSE Ret(FALSE, "Expected: did + V1 or V2.")

past_simple(toks) ==
    IF "did" \in Range(toks) THEN Ret(TRUE, "Found 'did'.")
    ELSE IF \E t \in Range(toks) : _looks_like_v2(t)
         THEN Ret(TRUE, "Found V2 marker (-ed or irregular V2).")
    ELSE Ret(FALSE, "Expected: did + V1 or V2.")

\* Mutant: a form of be with an -ing word is not taken for a continuous.
present_simple_no_continuous(toks) ==
    LET has_will == "will" \in Range(toks)
        has_had == "had" \in Range(toks)
        has_been == "been" \in Range(toks)
    IN  IF has_will \/ has_had \/ has_been
        THEN Ret(FALSE, "Looks like Future/Perfect (will/had/been found).")
        ELSE Ret(TRUE, "No strong markers of other tenses.")

present_simple(toks) ==
    LET has_will == "will" \in Range(toks)
        has_had == "had" \in Range(toks)
        has_been == "been" \in Range(toks)
        has_am_is_are == \E t \in {"am", "is", "are"} : t \in Range(toks)
        has_was_were == \E t \in {"was", "were"} : t \in Range(toks)
    IN  IF has_will \/ has_had \/ has_been
        THEN Ret(FALSE, "Looks like Future/Perfect (will/had/been found).")
        ELSE IF (has_am_is_are \/ has_was_were)
                /\ \E t \in Range(toks) : endswith(t, "ing")
             THEN Ret(FALSE, "Looks like Continuous (be + V-ing).")
        ELSE Ret(TRUE, "No strong markers of other tenses.")

\* return (True, found) if <helper> else (False, expected)
pattern_result(h, found, expected) ==
    IF h = "IndexError" THEN Raise("IndexError")
    ELSE IF h = "True" THEN Ret(TRUE, found)
    ELSE Ret(FALSE, expected)

tense_heuristic_ok(s, t) ==
    LET toks == _tokens(strip(s))
    IN  CASE t = "Future Simple" -> future_simple(toks)
          [] t = "Past Simple" -> past_simple(toks)
          [] t = "Present Simple" -> present_simple(toks)
          [] t = "Present Continuous" ->
                pattern_result(has_ing_after(toks, {"am", "is", "are"}),
                    "Found am/is/are + V-ing.", "Expected: am/is/are + V-ing.")
          [] t = "Past Continuous" ->
                pattern_result(has_ing_after(toks, {"was", "were"}),
                    "Found was/were + V-ing.", "Expected: was/were + V-ing.")
          [] t = "Future Continuous" ->
                pattern_result(has_will_be_ing(toks),
                    "Found will be + V-ing.", "Expected: will be + V-ing.")
          [] t = "Present Perfect" ->
                pattern_result(has_have_v3(toks),
                    "Found have/has + V3.", "Expected: have/has + V3.")
          [] t = "Past Perfect" ->
                pattern_result(has_had_v3(toks),
                    "Found had + V3.", "Expected: had + V3.")
          [] t = "Future Perfect" ->
                pattern_result(has_will_have_v3(toks),
                    "Found will have + V3.", "Expected: will have + V3.")
          [] t = "Present Perfect Continuous" ->
                pattern_result(has_have_been_ing(toks),
                    "Found have/has been + V-ing.",
                    "Expected: have/has been + V-ing.")
          [] t = "Past Perfect Continuous" ->
                pattern_result(has_had_been_ing(toks),
                    "Found had been + V-ing.", "Expected: had been + V-ing.")
          [] t = "Future Perfect Continuous" ->
                pattern_result(has_will_have_been_ing(toks),
                    "Found will have been + V-ing.",
                    "Expected: will have been + V-ing.")
          [] OTHER -> Ret(FALSE, "Unknown tense.")

-----------------------------------------------------------------------------
(* used_word_in_sentence *)

\* Mutant: the optional tokens are kept.
_required_content_tokens_unfiltered(required) == _tokens(required)

_required_content_tokens(required) ==
    SelectSeq(_tokens(required), LAMBDA t : t \notin OPTIONAL_TOKENS)

\* Mutant: only the base form itself is looked up.
single_token_used_base_only(c, tokset) == _norm(c) \in tokset

\* Single content token: some inflected form is a token of the sentence.
single_token_used(c, tokset) == \E f \in _simple_forms(c) : f \in tokset

\* for j in range(m): if toks[i + 1 + j] != tail[j]: ok = False; break
RECURSIVE tail_at(_, _, _, _)
tail_at(toks, tail, i, j) ==
    IF j >= Len(tail) THEN "True"
    ELSE IF ~InRange(toks, i + 1 + j) THEN "IndexError"
    ELSE IF Get(toks, i + 1 + j) # Get(tail, j) THEN "False"
    ELSE tail_at(toks, tail, i, j + 1)

\* Mutant: a tail that ends on the last token of the sentence is skipped.
RECURSIVE phrase_from_strict(_, _, _, _)
phrase_from_strict(toks, head_forms, tail, i) ==
    IF i >= Len(toks) THEN "False"
    ELSE IF Get(toks, i) \notin head_forms
         THEN phrase_from_strict(toks, head_forms, tail, i + 1)
    ELSE IF i + Len(tail) + 1 >= Len(toks)
         THEN phrase_from_strict(toks, head_forms, tail, i + 1)
    ELSE LET c == tail_at(toks, tail, i, 0)
         IN  IF c = "False"
             THEN phrase_from_strict(toks, head_forms, tail, i + 1)
             ELSE c

\* for i in range(n): ... of the phrase branch.
RECURSIVE phrase_from(_, _, _, _)
phrase_from(toks, head_forms, tail, i) ==
    IF i >= Len(toks) THEN "False"
    ELSE IF Get(toks, i) \notin head_forms
         THEN phrase_from(toks, head_forms, tail, i + 1)
    ELSE IF i + Len(tail) >= Len(toks)
         THEN phrase_from(toks, head_forms, tail, i + 1)
    ELSE LET c == tail_at(toks, tail, i, 0)
         IN  IF c = "False" THEN phrase_from(toks, head_forms, tail, i + 1)
             ELSE c

phrase_used(toks, content) ==
    IF ~InRange(content, 0) THEN "IndexError"
    ELSE phrase_from(toks, _simple_forms(Get(content, 0)), Tail(content), 0)

used_word_in_sentence(s, required) ==
    LET toks == _tokens(s)
        tokset == Range(toks)
        filtered == _required_content_tokens(required)
        content == IF filtered = <<>> THEN _tokens(required) ELSE filtered
    IN  IF Len(content) = 1
        THEN Ret(single_token_used(content[1], tokset), "")
        ELSE LET h == phrase_used(toks, content)
             IN  IF h = "IndexError" THEN Raise("IndexError")
                 ELSE Ret(h = "True", "")

-----------------------------------------------------------------------------
(* check_grammar_language_tool and check_sentence *)

\* A Python value that is a list or None.
ListValue(items) == [null |-> FALSE, items |-> items]

NoneValue == [null |-> TRUE, items |-> <<>>]

\* requests.post, raise_for_status, resp.json() and data.get("matches", [])
\* on the answer r of the service: the value returned, or the exception.
check_grammar_language_tool(r) ==
    IF r.kind \in {"timeout", "connection"}
    THEN [raised |-> TRUE, err |-> r.kind, value |-> NoneValue]
    ELSE IF r.status >= 400 /\ r.status < 600
    THEN [raised |-> TRUE, err |-> "HTTPError", value |-> NoneValue]
    ELSE IF r.body.json = "invalid"
    THEN [raised |-> TRUE, err |-> "JSONDecodeError", value |-> NoneValue]
    ELSE IF r.body.json # "object"
    THEN [raised |-> TRUE, err |-> "AttributeError", value |-> NoneValue]
    ELSE IF r.body.has_matches
    THEN [raised |-> FALSE, err |-> "", value |-> r.body.matches]
    ELSE [raised |-> FALSE, err |-> "", value |-> ListValue(<<>>)]

\* first.get('message', 'Errors found.')
first_message(first) ==
    IF first.has_message THEN first.message ELSE "Errors found."

\* Mutant: the diagnostic is taken from the last match, not the first.
grammar_step_last_message(r) ==
    LET g == check_grammar_language_tool(r)
        failed(m, e) == [matches |-> m, grammar_ok |-> FALSE,
                         grammar_msg |-> "Grammar check error: " \o e]
    IN  IF g.raised THEN failed(ListValue(<<>>), g.err)
        ELSE IF g.value.null THEN failed(g.value, "TypeError")
        ELSE IF Len(g.value.items) = 0
        THEN [matches |-> g.value, grammar_ok |-> TRUE,
              grammar_msg |-> "Grammar: OK."]
        ELSE IF ~Get(g.value.items, -1).is_object
        THEN failed(g.value, "AttributeError")
        ELSE [matches |-> g.value, grammar_ok |-> FALSE,
              grammar_msg |->
                  "Grammar: " \o first_message(Get(g.value.items, -1))]

\* The try / except block of check_sentence: matches, grammar_ok and
\* grammar_msg after it.
grammar_step(r) ==
    LET g == check_grammar_language_tool(r)
        failed(m, e) == [matches |-> m, grammar_ok |-> FALSE,
                         grammar_msg |-> "Grammar check error: " \o e]
    IN  IF g.raised THEN failed(ListValue(<<>>), g.err)
        ELSE IF g.value.null THEN failed(g.value, "TypeError")
        ELSE IF Len(g.value.items) = 0
        THEN [matches |-> g.value, grammar_ok |-> TRUE,
              grammar_msg |-> "Grammar: OK."]
        ELSE IF ~Get(g.value.items, 0).is_object
        THEN failed(g.value, "AttributeError")
        ELSE [matches |-> g.value, grammar_ok |-> FALSE,
              grammar_msg |->
                  "Grammar: " \o first_message(Get(g.value.items, 0))]

\* Mutant: the tense check is left out of the verdict.
verdict_without_tense(u, t, g) == u /\ g

verdict(u, t, g) == u /\ t /\ g

\* Mutant: the grammar diagnostic is put before the tense note.
message_of_grammar_first(u, t, t_msg, g, g_msg, ok) ==
    LET msg_parts ==
            (IF ~u THEN <<"Word not used (content token not found).">>
             ELSE <<>>)
            \o (IF ~g THEN <<g_msg>> ELSE <<>>)
            \o (IF ~t THEN <<"Tense mismatch: " \o t_msg>> ELSE <<>>)
            \o (IF ok THEN <<"Correct.">> ELSE <<>>)
    IN  IF msg_parts # <<>> THEN join(msg_parts, " ") ELSE "OK"

\* Mutant: nothing is appended to an accepted sentence's message.
message_of_without_correct(u, t, t_msg, g, g_msg, ok) ==
    LET msg_parts ==
            (IF ~u THEN <<"Word not used (content token not found).">>
             ELSE <<>>)
            \o (IF ~t THEN <<"Tense mismatch: " \o t_msg>> ELSE <<>>)
            \o (IF ~g THEN <<g_msg>> ELSE <<>>)
    IN  IF msg_parts # <<>> THEN join(msg_parts, " ") ELSE "OK"

message_of(u, t, t_msg, g, g_msg, ok) ==
    LET msg_parts ==
            (IF ~u THEN <<"Word not used (content token not found).">>
             ELSE <<>>)
            \o (IF ~t THEN <<"Tense mismatch: " \o t_msg>> ELSE <<>>)
            \o (IF ~g THEN <<g_msg>> ELSE <<>>)
            \o (IF ok THEN <<"Correct.">> ELSE <<>>)
    IN  IF msg_parts # <<>> THEN join(msg_parts, " ") ELSE "OK"

SentenceCheckResult(u, t, t_msg, gs) ==
    LET ok == verdict(u, t, gs.grammar_ok)
    IN  [raised |-> FALSE,
         ok |-> ok,
         used_word |-> u,
         tense_ok |-> t,
         grammar_ok |-> gs.grammar_ok,
         message |-> message_of(u, t, t_msg, gs.grammar_ok, gs.grammar_msg, ok),
         matches |-> gs.matches]

\* check_sentence has not returned yet.
NotReturned ==
    [raised |-> FALSE, ok |-> FALSE, used_word |-> FALSE, tense_ok |-> FALSE,
     grammar_ok |-> FALSE, message |-> "", matches |-> ListValue(<<>>)]

\* check_sentence left by an exception it does not catch.
Raised(e) ==
    [raised |-> TRUE, ok |-> FALSE, used_word |-> FALSE, tense_ok |-> FALSE,
     grammar_ok |-> FALSE, message |-> e, matches |-> ListValue(<<>>)]

-----------------------------------------------------------------------------
(* Inputs *)

RECURSIVE SeqsUpTo(_, _)
SeqsUpTo(S, n) ==
    IF n = 0 THEN {<<>>}
    ELSE LET shorter == SeqsUpTo(S, n - 1)
         IN  shorter \cup {Append(q, w) : q \in shorter, w \in S}

\* The sentence as typed: the words separated by one space, closed by a
\* full stop.
TextOf(ws) == IF ws = <<>> THEN "" ELSE join(ws, " ") \o "."

TenseVocab ==
    {"WILL", "have", "had", "been", "be", "is", "was", "Working"}

TenseInputs == {t : t \in Range(TENSES)} \cup {"present simple", ""}

NoResult == [raised |-> FALSE, ok |-> FALSE, msg |-> ""]

NoResponse == [kind |-> "none"]

\* The module-level state once the module is imported.
ModuleState ==
    [IRREGULAR |-> IRREGULAR, OPTIONAL_TOKENS |-> OPTIONAL_TOKENS]

\* No user interface is running.
UiClosed ==
    /\ toolkit = "none"
    /\ nb_tab = "none"
    /\ words_tab = [open |-> FALSE]
    /\ sentences_tab = [open |-> FALSE]
    /\ workers = <<>>
    /\ after_queue = <<>>
    /\ applied_on = {}
    /\ apply_error = ""
    /\ ok_keys = {}

\* No call of _tokens or of the classifiers on their own, no tab open.
Quiet ==
    /\ text_arg = ""
    /\ toks_out = <<>>
    /\ tok_arg = ""
    /\ looks = [v2 |-> FALSE, v3 |-> FALSE]
    /\ UiClosed

\* No second call, no _simple_forms call and no concurrent invocation.
Rest ==
    /\ Quiet
    /\ suffix = ""
    /\ ures_suffixed = NoResult
    /\ base_arg = ""
    /\ forms = {}
    /\ threads = <<>>
    /\ module_state = ModuleState

Idle ==
    /\ pc = "idle"
    /\ used = FALSE
    /\ tense_ok = FALSE
    /\ tense_msg = ""
    /\ response = NoResponse
    /\ posts = 0
    /\ result = NotReturned

-----------------------------------------------------------------------------
(* tense_heuristic_ok applied to the sentences over TenseVocab *)

InitTense ==
    /\ op = "input"
    /\ words \in SeqsUpTo(TenseVocab, MaxToks)
    /\ sentence = TextOf(words)
    /\ required_word = ""
    /\ tense = ""
    /\ tres = NoResult
    /\ ures = NoResult
    /\ Idle
    /\ Rest

CallTense(t) ==
    /\ op = "input"
    /\ op' = "tense"
    /\ tense' = t
    /\ tres' = tense_heuristic_ok(sentence, t)
    /\ UNCHANGED <<words, sentence, required_word, ures, pc, used, tense_ok,
                   tense_msg, response, posts, result>>
    /\ UNCHANGED <<punct_vars, forms_vars, conc_vars, pure_vars, ui_vars>>

NextTense == \E t \in TenseInputs : CallTense(t)

SpecTense == InitTense /\ [][NextTense]_vars

-----------------------------------------------------------------------------
(* What the claims about tense_heuristic_ok are stated with *)

\* The tokens of the sentence as the typed words give them.
Toks == [i \in 1..Len(words) |-> lower(words[i])]

TenseCalled(t) == op = "tense" /\ tense = t

PatternTenses ==
    {"Present Continuous", "Past Continuous", "Future Continuous",
     "Present Perfect", "Past Perfect", "Future Perfect",
     "Present Perfect Continuous", "Past Perfect Continuous",
     "Future Perfect Continuous"}

\* The markers of a pattern tense, in order.
Markers(t) ==
    CASE t = "Present Continuous" -> <<"am/is/are", "ing">>
      [] t = "Past Continuous" -> <<"was/were", "ing">>
      [] t = "Future Continuous" -> <<"will", "be", "ing">>
      [] t = "Present Perfect" -> <<"have/has", "v3">>
      [] t = "Past Perfect" -> <<"had", "v3">>
      [] t = "Future Perfect" -> <<"will", "have", "v3">>
      [] t = "Present Perfect Continuous" -> <<"have/has", "been", "ing">>
      [] t = "Past Perfect Continuous" -> <<"had", "been", "ing">>
      [] t = "Future Perfect Continuous" -> <<"will", "have", "been", "ing">>

IsMarker(m, tok) ==
    CASE m = "am/is/are" -> tok \in {"am", "is", "are"}
      [] m = "was/were" -> tok \in {"was", "were"}
      [] m = "have/has" -> tok \in {"have", "has"}
      [] m = "ing" -> endswith(tok, "ing")
      [] m = "v3" -> _looks_like_v3(tok)
      [] OTHER -> tok = m

\* Markers ms[k..] occur in order after position prev, each at most gap
\* filler tokens after the one before.
RECURSIVE MarkersFollow(_, _, _, _, _)
MarkersFollow(toks, ms, k, prev, gap) ==
    \/ k > Len(ms)
    \/ \E j \in (prev + 1)..(prev + 1 + gap) :
          /\ j <= Len(toks)
          /\ IsMarker(ms[k], toks[j])
          /\ MarkersFollow(toks, ms, k + 1, j, gap)

GapMatch(toks, ms, gap) ==
    \E i \in 1..Len(toks) :
        IsMarker(ms[1], toks[i]) /\ MarkersFollow(toks, ms, 2, i, gap)

\* C4: for each of the nine pattern tenses, a sentence whose tokens hold the
\* tense's markers in order, with at most 3 filler tokens between
\* consecutive markers, is accepted by tense_heuristic_ok.
C4_GapTolerantAccepted ==
    (op = "tense" /\ tense \in PatternTenses
        /\ GapMatch(Toks, Markers(tense), 3))
    => (~tres.raised /\ tres.ok)

\* C5: for each of the nine pattern tenses, a sentence in which the tense's
\* markers are consecutive tokens, at any position, is accepted by
\* tense_heuristic_ok.
C5_AdjacentAccepted ==
    (op = "tense" /\ tense \in PatternTenses
        /\ GapMatch(Toks, Markers(tense), 0))
    => (~tres.raised /\ tres.ok)

C5_Witness ==
    /\ TenseCalled("Present Perfect Continuous")
    /\ words = <<"is", "have", "been", "Working">>
    /\ tres.ok

\* C6: for Present Simple, tense_heuristic_ok answers false exactly when
\* will, had or been is a token, or an am/is/are token is followed by an
\* -ing token with at most 1 token between them; true for all other
\* sentences.
C6_PresentSimpleRule ==
    TenseCalled("Present Simple")
    => /\ ~tres.raised
       /\ tres.ok = ~(\/ \E t \in {"will", "had", "been"} : t \in Range(Toks)
                      \/ GapMatch(Toks, <<"am/is/are", "ing">>, 1))

\* C7: for Future Simple, tense_heuristic_ok answers true if and only if
\* some word of the sentence is "will" in some letter case, at any position.
C7_FutureSimple ==
    TenseCalled("Future Simple")
    => /\ ~tres.raised
       /\ tres.ok <=> (\E i \in 1..Len(words) : lower(words[i]) = "will")

C7_Witness ==
    /\ TenseCalled("Future Simple")
    /\ Len(words) >= 3
    /\ words[Len(words)] = "WILL"
    /\ \A i \in 1..(Len(words) - 1) : words[i] # "WILL"
    /\ tres.ok

\* C8: for Past Simple, tense_heuristic_ok answers true if and only if did
\* is a token or some token is classified past-simple by _looks_like_v2;
\* otherwise it returns (false, "Expected: did + V1 or V2.").
C8_PastSimple ==
    TenseCalled("Past Simple")
    => /\ ~tres.raised
       /\ tres.ok <=> (\/ "did" \in Range(Toks)
                       \/ \E t \in Range(Toks) : _looks_like_v2(t))
       /\ ~tres.ok => tres.msg = "Expected: did + V1 or V2."

C8_Witness ==
    /\ TenseCalled("Past Simple")
    /\ words = <<"be", "was">>
    /\ tres.ok

\* C9: tense_heuristic_ok returns a (bool, reason) pair without raising for
\* every sentence, the empty one and those of one or two tokens included,
\* and (false, "Unknown tense.") for a tense outside the 12 names.
C9_Total ==
    op = "tense"
    => /\ ~tres.raised
       /\ tres.ok \in BOOLEAN
       /\ tense \notin Range(TENSES)
            => (~tres.ok /\ tres.msg = "Unknown tense.")

C9_Witness ==
    /\ TenseCalled("present simple")
    /\ Len(words) = 2
    /\ ~tres.raised
    /\ tres.msg = "Unknown tense."

-----------------------------------------------------------------------------
(* used_word_in_sentence applied to the sentences over UsedVocab *)

UsedVocab == {"He", "ran", "away", "gave", "it", "up", "signed"}

RequiredPhrases ==
    {"run", "Run ", "sign it", "give up", "give it up", "it", "", "?!",
     "he run", "gave it up"}

\* Punctuation a sentence may be followed by.
Punctuation == {".", "!", "?", ",", "'"}

InitUsed ==
    /\ op = "input"
    /\ words \in SeqsUpTo(UsedVocab, MaxSentToks)
    /\ sentence \in {TextOf(words), join(words, " ")}
    /\ required_word \in RequiredPhrases
    /\ tense = ""
    /\ tres = NoResult
    /\ ures = NoResult
    /\ Idle
    /\ Rest

CallUsed ==
    /\ op = "input"
    /\ op' = "used"
    /\ ures' = used_word_in_sentence(sentence, required_word)
    /\ UNCHANGED <<words, sentence, required_word, tense, tres, pc, used,
                   tense_ok, tense_msg, response, posts, result>>
    /\ UNCHANGED <<punct_vars, forms_vars, conc_vars, pure_vars, ui_vars>>

\* used_word_in_sentence once more, on the sentence followed by p.
CallUsedSuffixed(p) ==
    /\ op = "used"
    /\ op' = "suffixed"
    /\ suffix' = p
    /\ ures_suffixed' = used_word_in_sentence(sentence \o p, required_word)
    /\ UNCHANGED <<words, sentence, required_word, tense, tres, ures, pc,
                   used, tense_ok, tense_msg, response, posts, result>>
    /\ UNCHANGED <<forms_vars, conc_vars, pure_vars, ui_vars>>

NextUsed ==
    \/ CallUsed
    \/ \E p \in Punctuation : CallUsedSuffixed(p)

SpecUsed == InitUsed /\ [][NextUsed]_vars

\* The content tokens a required phrase reduces to.
ContentOf(w) ==
    LET kept == SelectSeq(_tokens(w), LAMBDA t : t \notin OPTIONAL_TOKENS)
    IN  IF kept = <<>> THEN _tokens(w) ELSE kept

\* C3: used_word_in_sentence returns a boolean and never raises, for every
\* sentence and every required phrase, one that tokenizes to nothing
\* included.
C3_UsedTotal == op = "used" => (~ures.raised /\ ures.ok \in BOOLEAN)

\* C10: when the required phrase reduces to a single content token c,
\* used_word_in_sentence is true if and only if some member of
\* _simple_forms(c) is a word of the sentence, at any position.
C10_SingleToken ==
    (op = "used" /\ Len(ContentOf(required_word)) = 1)
    => /\ ~ures.raised
       /\ ures.ok <=> (\E i \in 1..Len(words) :
                          lower(words[i]) \in _simple_forms(ContentOf(required_word)[1]))

C10_Witness ==
    /\ op = "used"
    /\ required_word = "run"
    /\ words = <<"He", "ran", "away">>
    /\ ures.ok

\* Some word of the sentence is an inflected form of c.
SomeWordIsFormOf(c) ==
    \E i \in 1..Len(words) : lower(words[i]) \in _simple_forms(c)

\* C18: when the required phrase reduces to a head and a non-empty tail,
\* used_word_in_sentence is true if and only if some word i of the sentence
\* is a form of the head and the next Len(tail) words exist and equal the
\* tail in order; a tail ending on the last word is accepted and an
\* inflected tail word is rejected.
C18_PhraseMatch ==
    (op = "used" /\ Len(ContentOf(required_word)) >= 2)
    => LET head == Head(ContentOf(required_word))
           tail == Tail(ContentOf(required_word))
           m    == Len(tail)
       IN  /\ ~ures.raised
           /\ ures.ok <=>
                 (\E i \in 1..Len(words) :
                     /\ lower(words[i]) \in _simple_forms(head)
                     /\ i + m <= Len(words)
                     /\ \A j \in 1..m : lower(words[i + j]) = tail[j])
           /\ (required_word = "he run" /\ words = <<"He", "ran">>)
              => ~ures.ok

C18_Witness ==
    /\ op = "used"
    /\ required_word = "give up"
    /\ words = <<"He", "gave", "up">>
    /\ ures.ok

\* C19: the optional tokens of a required phrase are dropped, so "sign it"
\* is looked up exactly as "sign" (and "give it up" as "give up"); a phrase
\* made only of optional tokens is looked up by its unfiltered tokens.
C19_OptionalDropped ==
    op = "used"
    => /\ required_word = "sign it"
          => /\ ures = used_word_in_sentence(sentence, "sign")
             /\ ~ures.raised
             /\ ures.ok <=> SomeWordIsFormOf("sign")
       /\ required_word = "give it up"
          => ures = used_word_in_sentence(sentence, "give up")
       /\ required_word = "it"
          => /\ ~ures.raised
             /\ ures.ok <=> SomeWordIsFormOf("it")

C19_Witness ==
    /\ op = "used"
    /\ required_word = "sign it"
    /\ words = <<"He", "signed">>
    /\ ures.ok

-----------------------------------------------------------------------------
(* One invocation of check_sentence, step by step *)

CheckSentences ==
    {<<>>, <<"He", "ran", "away">>, <<"He", "walked", "away">>,
     <<"I", "Will", "run">>, <<"I", "eated", "an", "apple">>,
     <<"She", "is", "running">>}

CheckWords == {"run", "eat", "sign it", ""}

CheckTenses ==
    {"Past Simple", "Future Simple", "Present Continuous", "Past simple"}

Match(text) == [is_object |-> TRUE, has_message |-> TRUE, message |-> text]

MatchNoMessage == [is_object |-> TRUE, has_message |-> FALSE, message |-> ""]

NotAMatch == [is_object |-> FALSE, has_message |-> FALSE, message |-> ""]

Body(json, has_matches, matches) ==
    [json |-> json, has_matches |-> has_matches, matches |-> matches]

Http(status, body) == [kind |-> "http", status |-> status, body |-> body]

Spelling == "Possible spelling mistake found."

Agreement == "The verb does not agree with the subject."

\* What the service can answer to one POST.
Responses ==
    {[kind |-> "timeout"], [kind |-> "connection"],
     Http(500, Body("object", TRUE, ListValue(<<>>))),
     Http(304, Body("object", TRUE, ListValue(<<>>))),
     Http(200, Body("invalid", FALSE, NoneValue)),
     Http(200, Body("array", FALSE, NoneValue)),
     Http(200, Body("object", FALSE, NoneValue)),
     Http(200, Body("object", TRUE, NoneValue)),
     Http(200, Body("object", TRUE, ListValue(<<NotAMatch>>))),
     Http(200, Body("object", TRUE, ListValue(<<>>))),
     Http(200, Body("object", TRUE, ListValue(<<Match(Spelling)>>))),
     Http(200, Body("object", TRUE,
                    ListValue(<<Match(Agreement), Match(Spelling)>>))),
     Http(200, Body("object", TRUE, ListValue(<<MatchNoMessage>>)))}

Init ==
    /\ op = "check"
    /\ words \in CheckSentences
    /\ sentence = TextOf(words)
    /\ required_word \in CheckWords
    /\ tense \in CheckTenses
    /\ tres = NoResult
    /\ ures = NoResult
    /\ pc = "start"
    /\ used = FALSE
    /\ tense_ok = FALSE
    /\ tense_msg = ""
    /\ response = NoResponse
    /\ posts = 0
    /\ result = NotReturned
    /\ Rest

\* used_word_in_sentence or tense_heuristic_ok raised: nothing catches the
\* exception and it leaves check_sentence before any call goes out.
HeuristicsRaise ==
    /\ pc = "start"
    /\ LET u == used_word_in_sentence(sentence, required_word)
           t == tense_heuristic_ok(sentence, tense)
       IN  /\ u.raised \/ t.raised
           /\ ures' = u
           /\ result' = Raised(IF u.raised THEN u.msg ELSE t.msg)
    /\ pc' = "raised"
    /\ UNCHANGED <<op, words, sentence, required_word, tense, tres, used,
                   tense_ok, tense_msg, response, posts>>
    /\ UNCHANGED <<punct_vars, forms_vars, conc_vars, pure_vars, ui_vars>>

\* used = used_word_in_sentence(...); tense_ok, tense_msg = tense_heuristic_ok(...)
Heuristics ==
    /\ pc = "start"
    /\ LET u == used_word_in_sentence(sentence, required_word)
           t == tense_heuristic_ok(sentence, tense)
       IN  /\ ~u.raised /\ ~t.raised
           /\ ures' = u
           /\ tres' = t
           /\ used' = u.ok
           /\ tense_ok' = t.ok
           /\ tense_msg' = t.msg
    /\ pc' = "request"
    /\ UNCHANGED <<op, words, sentence, required_word, tense, response,
                   posts, result>>
    /\ UNCHANGED <<punct_vars, forms_vars, conc_vars, pure_vars, ui_vars>>

\* requests.post(LT_ENDPOINT, ...) goes out.
Post ==
    /\ pc = "request"
    /\ posts' = posts + 1
    /\ pc' = "waiting"
    /\ UNCHANGED <<op, words, sentence, required_word, tense, tres, ures,
                   used, tense_ok, tense_msg, response, result>>
    /\ UNCHANGED <<punct_vars, forms_vars, conc_vars, pure_vars, ui_vars>>

\* The service answers, or the call times out / fails in transport.
Answer(r) ==
    /\ pc = "waiting"
    /\ response' = r
    /\ pc' = "answered"
    /\ UNCHANGED <<op, words, sentence, required_word, tense, tres, ures,
                   used, tense_ok, tense_msg, posts, result>>
    /\ UNCHANGED <<punct_vars, forms_vars, conc_vars, pure_vars, ui_vars>>

\* Mutant: a call that raised is made once more before the result is built.
FinishRetrying ==
    /\ pc = "answered"
    /\ IF check_grammar_language_tool(response).raised /\ posts < 2
       THEN pc' = "request" /\ result' = result
       ELSE /\ result' = SentenceCheckResult(used, tense_ok, tense_msg,
                                             grammar_step(response))
            /\ pc' = "done"
    /\ UNCHANGED <<op, words, sentence, required_word, tense, tres, ures,
                   used, tense_ok, tense_msg, response, posts>>
    /\ UNCHANGED <<punct_vars, forms_vars, conc_vars, pure_vars, ui_vars>>

\* The rest of check_sentence: the answer is read, the verdict and the
\* message are built and the result is returned.
Finish ==
    /\ pc = "answered"
    /\ result' = SentenceCheckResult(used, tense_ok, tense_msg,
                                     grammar_step(response))
    /\ pc' = "done"
    /\ UNCHANGED <<op, words, sentence, required_word, tense, tres, ures,
                   used, tense_ok, tense_msg, response, posts>>
    /\ UNCHANGED <<punct_vars, forms_vars, conc_vars, pure_vars, ui_vars>>

Next ==
    \/ HeuristicsRaise
    \/ Heuristics
    \/ Post
    \/ \E r \in Responses : Answer(r)
    \/ Finish

Spec == Init /\ [][Next]_vars

\* s contains sub as a substring.
Contains(s, sub) ==
    \E i \in 1..(Len(s) - Len(sub) + 1) : SubSeq(s, i, i + Len(sub) - 1) = sub

\* The call to the grammar service failed: timeout, transport error,
\* non-2xx status, or a body that is not a JSON object holding a list of
\* match objects under "matches".
Malformed(body) ==
    \/ body.json # "object"
    \/ ~body.has_matches
    \/ body.matches.null
    \/ \E i \in 1..Len(body.matches.items) : ~body.matches.items[i].is_object

CallFailed(r) ==
    \/ r.kind \in {"timeout", "connection"}
    \/ r.kind = "http" /\ ~(r.status >= 200 /\ r.status < 300)
    \/ r.kind = "http" /\ Malformed(r.body)

\* C1: the result returned by check_sentence has
\* ok = (used_word and tense_ok and grammar_ok), whatever the sentence, the
\* required word, the tense and the answer of the grammar service.
C1_Aggregation ==
    pc = "done"
    => result.ok = (result.used_word /\ result.tense_ok /\ result.grammar_ok)

C1_Witness ==
    /\ pc = "done"
    /\ result.ok
    /\ words = <<"He", "ran", "away">>
    /\ Len(response.body.matches.items) = 0

\* C2: when the call to the grammar service fails (timeout, transport
\* error, non-2xx status, malformed body), check_sentence returns a result
\* with grammar_ok = false and ok = false whose message carries a grammar
\* diagnostic.
C2_FailureAbsorbed ==
    (pc = "done" /\ CallFailed(response))
    => /\ ~result.raised
       /\ ~result.grammar_ok
       /\ ~result.ok
       /\ Contains(result.message, "Grammar")

-----------------------------------------------------------------------------
(* Claims about used_word_in_sentence and trailing punctuation *)

\* C11: used_word_in_sentence gives the same result for a sentence and for
\* the sentence with a trailing punctuation character appended, the
\* apostrophe included.
C11_PunctuationInvariant ==
    op = "suffixed" => ures_suffixed = ures

-----------------------------------------------------------------------------
(* _simple_forms applied to a set of bases *)

RegularBases ==
    {"try", "play", "cry", "stay", "by", "y", "ey", "pass", "fix", "buzz",
     "watch", "wash", "sign", "walk", "agree", "like", "believe", "e", "ee",
     "s", "x", "ch", "give up", "don't"}

\* Bases that are not in normal form, with the normal form of each.
MessyBases ==
    ("" :> "") @@ (" " :> "") @@ (" \t " :> "") @@ ("Run" :> "run")
    @@ (" GET " :> "get") @@ ("TRY" :> "try")
    @@ ("Give  Up" :> "give up") @@ ("  be" :> "be")

Bases == DOMAIN IRREGULAR \cup RegularBases \cup DOMAIN MessyBases

InitForms ==
    /\ op = "input"
    /\ words = <<>>
    /\ sentence = ""
    /\ required_word = ""
    /\ tense = ""
    /\ tres = NoResult
    /\ ures = NoResult
    /\ Idle
    /\ suffix = ""
    /\ ures_suffixed = NoResult
    /\ base_arg \in Bases
    /\ forms = {}
    /\ threads = <<>>
    /\ module_state = ModuleState
    /\ Quiet

CallForms ==
    /\ op = "input"
    /\ op' = "forms"
    /\ forms' = _simple_forms(base_arg)
    /\ UNCHANGED <<words, sentence, required_word, tense, tres, ures, pc,
                   used, tense_ok, tense_msg, response, posts, result>>
    /\ UNCHANGED <<base_arg, punct_vars, conc_vars, pure_vars, ui_vars>>

NextForms == CallForms

SpecForms == InitForms /\ [][NextForms]_vars

\* The normal form of the base handed over: trimmed, lower-cased, inner
\* whitespace collapsed.
Normal(raw) == IF raw \in DOMAIN MessyBases THEN MessyBases[raw] ELSE raw

\* C12 as stated: for all bases, the empty and the whitespace-only base
\* included, the normalized base is a member of _simple_forms(b).
C12_BaseIncluded == op = "forms" => Normal(base_arg) \in forms

\* C12 as amended: for every base whose normal form is not empty (bases with
\* upper-case letters or extra spaces included) the normalized base is a
\* member of _simple_forms(b); for an empty or whitespace-only base
\* _simple_forms(b) is the empty set.
C12_NonEmptyBaseIncluded ==
    op = "forms"
    => /\ Normal(base_arg) # "" => Normal(base_arg) \in forms
       /\ Normal(base_arg) = "" => forms = {}

C12_Witness ==
    /\ op = "forms"
    /\ base_arg = " GET "
    /\ "get" \in forms

\* C13: for every key b of IRREGULAR, every '/'-separated past alternate and
\* every '/'-separated participle alternate of b is in _simple_forms(b).
C13_AlternatesIncluded ==
    (op = "forms" /\ base_arg \in DOMAIN IRREGULAR)
    => \A k \in {1, 2} :
          \A alt \in Range(split(IRREGULAR[base_arg][k], "/")) : alt \in forms

C13_Witness ==
    /\ op = "forms"
    /\ base_arg = "get"
    /\ {"got", "gotten"} \subseteq forms

\* The forms the rules of _simple_forms give for a non-empty normalized b.
LastChar(b) == SubSeq(b, Len(b), Len(b))

ExpectedForms(b) ==
    {b}
    \cup (IF LastChar(b) = "y" /\ Len(b) > 2
             /\ SubSeq(b, Len(b) - 1, Len(b) - 1) \notin {"a", "e", "i", "o", "u"}
          THEN {SubSeq(b, 1, Len(b) - 1) \o "ies"} ELSE {})
    \cup (IF LastChar(b) \in {"s", "x", "z"}
             \/ (Len(b) >= 2 /\ SubSeq(b, Len(b) - 1, Len(b)) \in {"ch", "sh"})
          THEN {b \o "es"} ELSE {})
    \cup {b \o "s"}
    \cup (IF LastChar(b) = "e" THEN {b \o "d"} ELSE {b \o "ed"})
    \cup (IF LastChar(b) = "e"
             /\ ~(Len(b) >= 2 /\ SubSeq(b, Len(b) - 1, Len(b)) = "ee")
          THEN {SubSeq(b, 1, Len(b) - 1) \o "ing"} ELSE {b \o "ing"})
    \cup (IF b \in DOMAIN IRREGULAR
          THEN Range(split(IRREGULAR[b][1], "/"))
               \cup Range(split(IRREGULAR[b][2], "/"))
          ELSE {})

\* C20: for every base with a non-empty normal form b, _simple_forms is
\* exactly the union of b, the y -> ies form, b+es, b+s, b+d or b+ed, the
\* -ing form and, for an IRREGULAR key, all its alternates.
C20_ExactForms ==
    (op = "forms" /\ Normal(base_arg) # "")
    => forms = ExpectedForms(Normal(base_arg))

C20_Witness ==
    /\ op = "forms"
    /\ base_arg = "agree"
    /\ forms = {"agree", "agrees", "agreed", "agreeing"}

\* C14: _simple_forms("eat") does not contain "eated", so check_sentence on
\* "I eated an apple." with required word "eat" returns used_word = false
\* whatever the grammar service answers.
C14_EatedRejected ==
    (pc = "done" /\ required_word = "eat"
        /\ words = <<"I", "eated", "an", "apple">>)
    => ("eated" \notin _simple_forms("eat") /\ ~result.used_word)

-----------------------------------------------------------------------------
(* Claims about the call to the grammar service *)

\* What check_grammar_language_tool handed back for the answer received.
Returned == check_grammar_language_tool(response)

CallSucceeded == response.kind # "none" /\ ~Returned.raised /\ ~Returned.value.null

\* C15: when the grammar service call succeeds, grammar_ok is true if and
\* only if the returned match list is empty, the result's matches are
\* exactly the returned list, and for a non-empty list the message contains
\* the first match's message.
C15_SuccessfulCall ==
    (pc = "done" /\ CallSucceeded)
    => /\ result.grammar_ok <=> (Len(Returned.value.items) = 0)
       /\ result.matches = Returned.value
       /\ (Len(Returned.value.items) > 0
             /\ Returned.value.items[1].is_object
             /\ Returned.value.items[1].has_message)
          => Contains(result.message, Returned.value.items[1].message)

C15_Witness ==
    /\ pc = "done"
    /\ response = Http(200, Body("object", TRUE,
                        ListValue(<<Match(Agreement), Match(Spelling)>>)))
    /\ ~result.grammar_ok
    /\ Contains(result.message, Agreement)

\* C16: every invocation of check_sentence that returns has made exactly
\* one outbound call to the grammar service, whether the call succeeded or
\* failed; no call is repeated and none is skipped.
C16_OneCall ==
    /\ posts \in {0, 1}
    /\ pc = "done" => posts = 1

C16_Witness ==
    /\ pc = "done"
    /\ response.kind = "timeout"
    /\ posts = 1
    /\ ~result.grammar_ok

-----------------------------------------------------------------------------
(* Concurrent invocations of check_sentence *)

NumThreads == 2

ConcInputs ==
    {[sentence |-> TextOf(<<"He", "ran", "away">>), required_word |-> "run",
      tense |-> "Past Simple"],
     [sentence |-> TextOf(<<"I", "Will", "run">>), required_word |-> "eat",
      tense |-> "Future Simple"],
     [sentence |-> TextOf(<<"He", "ran", "away">>), required_word |-> "",
      tense |-> "Past Simple"]}

ConcResponses ==
    {[kind |-> "timeout"],
     Http(200, Body("object", TRUE, ListValue(<<>>))),
     Http(200, Body("object", TRUE, ListValue(<<Match(Spelling)>>)))}

\* The frame of one invocation on entry: its arguments, and its locals not
\* yet assigned.
Frame(in) ==
    [pc |-> "start", sentence |-> in.sentence,
     required_word |-> in.required_word, tense |-> in.tense,
     used |-> FALSE, tense_ok |-> FALSE, tense_msg |-> "",
     response |-> NoResponse, result |-> NotReturned]

\* check_sentence run alone on (s, w, t) with the service answering r.
check_sentence(s, w, t, r) ==
    LET u  == used_word_in_sentence(s, w)
        th == tense_heuristic_ok(s, t)
    IN  IF u.raised THEN Raised(u.msg)
        ELSE IF th.raised THEN Raised(th.msg)
        ELSE SentenceCheckResult(u.ok, th.ok, th.msg, grammar_step(r))

\* Mutant: used, tense_ok and tense_msg are module-level names that every
\* invocation shares.
StoreShared(ths, i, f) ==
    [j \in DOMAIN ths |->
        IF j = i THEN f
        ELSE [ths[j] EXCEPT !.used = f.used, !.tense_ok = f.tense_ok,
                            !.tense_msg = f.tense_msg]]

\* An assignment to the locals of invocation i: its own frame changes and
\* no other.
StoreLocals(ths, i, f) == [ths EXCEPT ![i] = f]

InitConc ==
    /\ op = "conc"
    /\ words = <<>>
    /\ sentence = ""
    /\ required_word = ""
    /\ tense = ""
    /\ tres = NoResult
    /\ ures = NoResult
    /\ Idle
    /\ suffix = ""
    /\ ures_suffixed = NoResult
    /\ base_arg = ""
    /\ forms = {}
    /\ threads \in [1..NumThreads -> {Frame(in) : in \in ConcInputs}]
    /\ module_state = ModuleState
    /\ Quiet

ConcFrame ==
    /\ UNCHANGED <<op, words, sentence, required_word, tense, tres, ures, pc,
                   used, tense_ok, tense_msg, response, posts, result>>
    /\ UNCHANGED <<punct_vars, forms_vars, module_state, pure_vars, ui_vars>>

\* Invocation i: a heuristic raises and the exception leaves check_sentence.
ConcHeuristicsRaise(i) ==
    /\ threads[i].pc = "start"
    /\ LET f == threads[i]
           u == used_word_in_sentence(f.sentence, f.required_word)
           t == tense_heuristic_ok(f.sentence, f.tense)
       IN  /\ u.raised \/ t.raised
           /\ threads' = StoreLocals(threads, i,
                  [f EXCEPT !.pc = "raised",
                            !.result = Raised(IF u.raised THEN u.msg
                                              ELSE t.msg)])
    /\ ConcFrame

\* Invocation i: used, tense_ok and tense_msg are assigned and the call to
\* the grammar service goes out.
ConcHeuristics(i) ==
    /\ threads[i].pc = "start"
    /\ LET f == threads[i]
           u == used_word_in_sentence(f.sentence, f.required_word)
           t == tense_heuristic_ok(f.sentence, f.tense)
       IN  /\ ~u.raised /\ ~t.raised
           /\ threads' = StoreLocals(threads, i,
                  [f EXCEPT !.pc = "waiting", !.used = u.ok,
                            !.tense_ok = t.ok, !.tense_msg = t.msg])
    /\ ConcFrame

\* Invocation i: the service answers its call, or the call fails.
ConcAnswer(i, r) ==
    /\ threads[i].pc = "waiting"
    /\ threads' = StoreLocals(threads, i,
           [threads[i] EXCEPT !.pc = "answered", !.response = r])
    /\ ConcFrame

\* Invocation i: the result is built from its locals and returned.
ConcFinish(i) ==
    /\ threads[i].pc = "answered"
    /\ LET f == threads[i]
       IN  threads' = StoreLocals(threads, i,
               [f EXCEPT !.pc = "done",
                         !.result = SentenceCheckResult(f.used, f.tense_ok,
                                        f.tense_msg, grammar_step(f.response))])
    /\ ConcFrame

NextConc ==
    \E i \in 1..NumThreads :
        \/ ConcHeuristicsRaise(i)
        \/ ConcHeuristics(i)
        \/ \E r \in ConcResponses : ConcAnswer(i, r)
        \/ ConcFinish(i)

SpecConc == InitConc /\ [][NextConc]_vars

\* C17: under every interleaving of the concurrent invocations, a finished
\* invocation's result is the result of check_sentence run alone on its own
\* inputs and its own service answer, and the module-level tables IRREGULAR
\* and OPTIONAL_TOKENS are what they were at import.
C17_Independent ==
    /\ module_state = ModuleState
    /\ \A i \in DOMAIN threads :
          LET f == threads[i]
          IN  /\ f.pc = "done"
                 => f.result = check_sentence(f.sentence, f.required_word,
                                              f.tense, f.response)
              /\ f.pc = "raised"
                 => f.result = check_sentence(f.sentence, f.required_word,
                                              f.tense, NoResponse)

\* Two invocations with different inputs and different answers have both
\* returned, one accepted and one not.
C17_Witness ==
    /\ op = "conc"
    /\ \E i, j \in DOMAIN threads :
          /\ i # j
          /\ threads[i].pc = "done" /\ threads[j].pc = "done"
          /\ threads[i].required_word = "run"
          /\ threads[j].required_word = "eat"
          /\ threads[i].result.ok
          /\ ~threads[j].result.used_word
          /\ threads[i].response # threads[j].response

-----------------------------------------------------------------------------
(* _tokens applied to short texts *)

MaxTextLen == 3

TextChars == {"a", "B", "'", "1", " ", "."}

RECURSIVE StringsUpTo(_, _)
StringsUpTo(S, n) ==
    IF n = 0 THEN {""}
    ELSE LET shorter == StringsUpTo(S, n - 1)
         IN  shorter \cup {q \o c : q \in shorter, c \in S}

InitTokens ==
    /\ op = "input"
    /\ words = <<>>
    /\ sentence = ""
    /\ required_word = ""
    /\ tense = ""
    /\ tres = NoResult
    /\ ures = NoResult
    /\ Idle
    /\ suffix = ""
    /\ ures_suffixed = NoResult
    /\ base_arg = ""
    /\ forms = {}
    /\ threads = <<>>
    /\ module_state = ModuleState
    /\ text_arg \in StringsUpTo(TextChars, MaxTextLen)
    /\ toks_out = <<>>
    /\ tok_arg = ""
    /\ looks = [v2 |-> FALSE, v3 |-> FALSE]
    /\ UiClosed

CallTokens ==
    /\ op = "input"
    /\ op' = "tokens"
    /\ toks_out' = _tokens(text_arg)
    /\ UNCHANGED <<words, sentence, required_word, tense, tres, ures, pc,
                   used, tense_ok, tense_msg, response, posts, result>>
    /\ UNCHANGED <<punct_vars, forms_vars, conc_vars, text_arg, tok_arg,
                   looks, ui_vars>>

NextTokens == CallTokens

SpecTokens == InitTokens /\ [][NextTokens]_vars

Letters == "abcdefghijklmnopqrstuvwxyzABCDEFGHIJKLMNOPQRSTUVWXYZ"

\* c is a letter or an apostrophe.
InRun(c) == char_in(c, Letters) \/ c = "'"

\* The maximal runs of letters and apostrophes of t, as <<first, last>>.
RunsOf(t) ==
    {r \in (1..Len(t)) \X (1..Len(t)) :
        /\ r[1] <= r[2]
        /\ \A k \in r[1]..r[2] : InRun(Char(t, k))
        /\ r[1] = 1 \/ ~InRun(Char(t, r[1] - 1))
        /\ r[2] = Len(t) \/ ~InRun(Char(t, r[2] + 1))}

\* C23: _tokens(text) is, in order of occurrence, the lower-cased maximal
\* runs of letters and apostrophes of the text; digits and all other
\* characters only separate tokens; a text without letters or apostrophes,
\* the empty text included, gives the empty sequence.
C23_TokenRuns ==
    op = "tokens"
    => LET runs == RunsOf(text_arg)
       IN  /\ Len(toks_out) = Cardinality(runs)
           /\ \A r \in runs :
                 toks_out[1 + Cardinality({q \in runs : q[1] < r[1]})]
                     = lower(SubSeq(text_arg, r[1], r[2]))
           /\ runs = {} => toks_out = <<>>

C23_Witness ==
    /\ op = "tokens"
    /\ text_arg = "B1'"
    /\ toks_out = <<"b", "'">>

-----------------------------------------------------------------------------
(* _looks_like_v2 and _looks_like_v3 applied to single tokens *)

LookTokens ==
    DOMAIN IRREGULAR
    \cup UNION {V2Alternates[b] \cup V3Alternates[b] : b \in DOMAIN IRREGULAR}
    \cup {"", "d", "ed", "red", "eed", "need", "walked", "Walked", "WALKED",
          "walk", "running", "Was", " was", "was/were", "got/gotten",
          "gotten ", "/", "eds"}

InitLooks ==
    /\ op = "input"
    /\ words = <<>>
    /\ sentence = ""
    /\ required_word = ""
    /\ tense = ""
    /\ tres = NoResult
    /\ ures = NoResult
    /\ Idle
    /\ suffix = ""
    /\ ures_suffixed = NoResult
    /\ base_arg = ""
    /\ forms = {}
    /\ threads = <<>>
    /\ module_state = ModuleState
    /\ text_arg = ""
    /\ toks_out = <<>>
    /\ tok_arg \in LookTokens
    /\ looks = [v2 |-> FALSE, v3 |-> FALSE]
    /\ UiClosed

CallLooks ==
    /\ op = "input"
    /\ op' = "looks"
    /\ looks' = [v2 |-> _looks_like_v2(tok_arg), v3 |-> _looks_like_v3(tok_arg)]
    /\ UNCHANGED <<words, sentence, required_word, tense, tres, ures, pc,
                   used, tense_ok, tense_msg, response, posts, result>>
    /\ UNCHANGED <<punct_vars, forms_vars, conc_vars, text_arg, toks_out,
                   tok_arg, ui_vars>>

NextLooks == CallLooks

SpecLooks == InitLooks /\ [][NextLooks]_vars

\* a occurs in s.
Substring(a, s) ==
    \E i \in 1..(Len(s) - Len(a) + 1) : SubSeq(s, i, i + Len(a) - 1) = a

\* tok is one of the '/'-separated alternates of column k of some entry.
IsAlternate(tok, k) ==
    /\ tok # ""
    /\ ~char_in("/", tok)
    /\ \E b \in DOMAIN IRREGULAR :
          Substring("/" \o tok \o "/", "/" \o IRREGULAR[b][k] \o "/")

\* tok ends in "ed" and is longer than three characters.
EdRule(tok) == Len(tok) > 3 /\ SubSeq(tok, Len(tok) - 1, Len(tok)) = "ed"

\* C21: _looks_like_v2(t) is true exactly when t ends in "ed" and is longer
\* than three characters or t is a past alternate of some IRREGULAR entry;
\* _looks_like_v3(t) likewise with the participle alternates; every other
\* token gives false.
C21_Classifiers ==
    op = "looks"
    => /\ looks.v2 <=> (EdRule(tok_arg) \/ IsAlternate(tok_arg, 1))
       /\ looks.v3 <=> (EdRule(tok_arg) \/ IsAlternate(tok_arg, 2))

C21_Witness ==
    /\ op = "looks"
    /\ tok_arg = "gotten"
    /\ looks.v3
    /\ ~looks.v2

-----------------------------------------------------------------------------
(* Claims about the message of check_sentence *)

WordNote == "Word not used (content token not found)."

TenseNote == "Tense mismatch: "

CorrectNote == "Correct."

\* a and b with one space between them when neither is empty.
Spaced(a, b) ==
    IF a = "" THEN b ELSE IF b = "" THEN a ELSE a \o " " \o b

\* C22: the message returned by check_sentence is, in this order, the
\* word-not-used note iff used_word is false, the tense-mismatch note with
\* the tense reason iff tense_ok is false, the grammar diagnostic iff
\* grammar_ok is false, and "Correct." iff ok is true, and nothing else.
C22_MessageParts ==
    pc = "done"
    => result.message =
         Spaced(IF ~result.used_word THEN WordNote ELSE "",
         Spaced(IF ~result.tense_ok THEN TenseNote \o tres.msg ELSE "",
         Spaced(IF ~result.grammar_ok
                THEN grammar_step(response).grammar_msg ELSE "",
                IF result.ok THEN CorrectNote ELSE "")))

C22_Witness ==
    /\ pc = "done"
    /\ ~result.used_word /\ ~result.tense_ok /\ ~result.grammar_ok
    /\ response = Http(200, Body("object", TRUE, ListValue(<<Match(Spelling)>>)))
    /\ result.message =
         WordNote \o " " \o TenseNote \o tres.msg \o " Grammar: " \o Spelling

-----------------------------------------------------------------------------
(* Further claims about used_word_in_sentence and tense_heuristic_ok *)

\* The sequence part occurs in the sequence whole, contiguously and in order.
OccursIn(part, whole) ==
    \E i \in 0..(Len(whole) - Len(part)) :
        \A j \in 1..Len(part) : whole[i + j] = part[j]

\* C26: if the tokens of the required phrase occur verbatim and contiguously
\* among the words of the sentence, used_word_in_sentence returns true, also
\* when an optional token stands between two content tokens of the phrase.
C26_VerbatimAccepted ==
    (op = "used"
       /\ _tokens(required_word) # <<>>
       /\ OccursIn(_tokens(required_word), Toks))
    => (~ures.raised /\ ures.ok)

\* The tenses Present Simple is meant to exclude.
ExcludedByPresentSimple ==
    {"Present Continuous", "Past Continuous", "Future Simple",
     "Future Continuous", "Future Perfect", "Future Perfect Continuous",
     "Past Perfect", "Present Perfect Continuous", "Past Perfect Continuous"}

\* C27: no sentence is accepted both as Present Simple and as a continuous,
\* a future, the past perfect or a perfect continuous tense.
C27_PresentSimpleExclusive ==
    /\ (TenseCalled("Present Simple") /\ tres.ok)
       => \A t \in ExcludedByPresentSimple :
             ~tense_heuristic_ok(sentence, t).ok
    /\ (op = "tense" /\ tense \in ExcludedByPresentSimple /\ tres.ok)
       => ~tense_heuristic_ok(sentence, "Present Simple").ok

C27_Witness ==
    /\ TenseCalled("Past Continuous")
    /\ words = <<"was", "Working">>
    /\ tres.ok
    /\ ~tense_heuristic_ok(sentence, "Present Simple").ok

-----------------------------------------------------------------------------
(* The two tabs of the user interface: ui_app.py ("tk") and ui_qt.py ("qt") *)

WordsRound == 3

SentencesRound == 5

MaxWorkers == 2

\* The vocabulary loaded at start (self.items of both tabs).
Items ==
    <<[topic |-> "Animals", en |-> "cat", ru |-> "kot"],
      [topic |-> "Animals", en |-> "Dog", ru |-> "sobaka"],
      [topic |-> "Animals", en |-> "fox", ru |-> "lisa"],
      [topic |-> "Verbs", en |-> "run", ru |-> "bezhat"]>>

\* _topics(): "All topics" and the topics of the vocabulary.
Topics == {"All topics"} \cup {Items[i].topic : i \in DOMAIN Items}

\* _norm of the user interface modules, on texts without the letter yo.
ui_norm(s) == join(split_ws(lower(strip(s)), "", <<>>), " ")

\* The keys of the vocabulary's items, computed once.
CardKeys ==
    [it \in Range(Items) |->
        <<ui_norm(it.topic), ui_norm(it.en), ui_norm(it.ru)>>]

WordKeys == [it \in Range(Items) |-> <<ui_norm(it.topic), ui_norm(it.en)>>]

_card_key_words(item) == CardKeys[item]

_word_key_sentence(item) == WordKeys[item]

_topic_pool_all(sel) ==
    IF sel = "All topics" THEN Items
    ELSE SelectSeq(Items, LAMBDA it : it.topic = sel)

\* WordsTab._topic_pool_remaining
words_pool_remaining(sel, learned) ==
    SelectSeq(_topic_pool_all(sel),
              LAMBDA it : _card_key_words(it) \notin learned)

\* SentencesTab._topic_pool_remaining
sentences_pool_remaining(sel, used_words) ==
    SelectSeq(_topic_pool_all(sel),
              LAMBDA it : _word_key_sentence(it) \notin used_words)

Min(a, b) == IF a <= b THEN a ELSE b

\* The items of pool at the positions S, in the order of pool.
Pick(pool, S) ==
    [k \in 1..Cardinality(S) |->
        pool[CHOOSE i \in S : Cardinality({j \in S : j < i}) = k - 1]]

\* random.sample(pool, take): the samples that keep the order of pool.
Samples(pool, take) ==
    {Pick(pool, S) : S \in {T \in SUBSET (1..Len(pool)) : Cardinality(T) = take}}

\* The same text in every one of the n labels.
AllLabels(n, text) == [i \in 1..n |-> text]

\* SentencesTab.next_words() drawing the given sample.
next_words(tk, tab, sample) ==
    IF Len(sentences_pool_remaining(tab.current_topic, tab.used_words)) = 0
    THEN IF tk = "tk"
         THEN [tab EXCEPT !.current_words = <<>>,
                          !.last_matches = AllLabels(SentencesRound, "none"),
                          !.result_labels = AllLabels(SentencesRound, "end")]
         ELSE [tab EXCEPT !.result_labels = AllLabels(SentencesRound, "end")]
    ELSE IF tk = "tk"
         THEN [tab EXCEPT !.current_words = sample,
                          !.last_matches = AllLabels(SentencesRound, "none"),
                          !.result_labels = AllLabels(SentencesRound, "")]
         ELSE [tab EXCEPT !.current_words = sample,
                          !.result_labels = AllLabels(SentencesRound, "")]

\* The samples next_words() can draw for the tab.
next_words_samples(tab) ==
    LET pool == sentences_pool_remaining(tab.current_topic, tab.used_words)
    IN  Samples(pool, Min(SentencesRound, Len(pool)))

\* WordsTab.next_round() drawing the given sample.
next_round(tk, tab, sample) ==
    IF Len(words_pool_remaining(tab.current_topic, tab.learned)) = 0
    THEN IF tk = "tk"
         THEN [tab EXCEPT !.current = <<>>,
                          !.result_labels = AllLabels(WordsRound, "end")]
         ELSE [tab EXCEPT !.result_labels = AllLabels(WordsRound, "end")]
    ELSE [tab EXCEPT !.current = sample,
                     !.result_labels = AllLabels(WordsRound, "")]

next_round_samples(tab) ==
    LET pool == words_pool_remaining(tab.current_topic, tab.learned)
    IN  Samples(pool, Min(WordsRound, Len(pool)))

\* The (ok, matches) pairs a worker or a check can come to for n entries.
OkPatterns(n) ==
    {[k \in 1..n |-> TRUE], [k \in 1..n |-> FALSE], [k \in 1..n |-> k = 1]}

\* _apply_check_results of ui_qt: the loop from entry k on.
RECURSIVE apply_qt_from(_, _, _, _)
apply_qt_from(tab, idx_map, results, k) ==
    IF k > Len(idx_map) THEN [tab |-> tab, error |-> ""]
    ELSE LET pos == idx_map[k]
             shown == [tab EXCEPT
                         !.last_matches[pos + 1] =
                             IF results[k] THEN "none" ELSE "some",
                         !.result_labels[pos + 1] =
                             IF results[k] THEN "ok" ELSE "msg"]
         IN  IF ~results[k] THEN apply_qt_from(shown, idx_map, results, k + 1)
             ELSE IF ~InRange(tab.current_words, pos)
             THEN [tab |-> shown, error |-> "IndexError"]
             ELSE apply_qt_from(
                      [shown EXCEPT !.used_words =
                          @ \cup {_word_key_sentence(Get(tab.current_words, pos))}],
                      idx_map, results, k + 1)

\* _apply_check_results: the tab after it and the exception it ended with.
\* In ui_app the result labels are StringVars, which have no configure().
_apply_check_results(tk, tab, idx_map, results) ==
    LET enabled == [tab EXCEPT !.check_btn = TRUE]
    IN  IF tk = "qt" THEN apply_qt_from(enabled, idx_map, results, 1)
        ELSE IF Len(idx_map) = 0 THEN [tab |-> enabled, error |-> ""]
        ELSE [tab |-> [enabled EXCEPT
                         !.last_matches[idx_map[1] + 1] =
                             IF results[1] THEN "none" ELSE "some",
                         !.result_labels[idx_map[1] + 1] =
                             IF results[1] THEN "ok" ELSE "msg"],
              error |-> "AttributeError"]

\* The loop of WordsTab.check of ui_qt from entry i (0-based) on.
RECURSIVE words_check_from(_, _, _)
words_check_from(tab, oks, i) ==
    IF i >= Len(tab.current) THEN tab
    ELSE words_check_from(
             [tab EXCEPT
                 !.result_labels[i + 1] = IF oks[i + 1] THEN "ok" ELSE "bad",
                 !.learned = IF oks[i + 1]
                             THEN @ \cup {_card_key_words(Get(tab.current, i))}
                             ELSE @],
             oks, i + 1)

\* WordsTab after __init__.
NewWordsTab(sample) ==
    [current_topic |-> "All topics", current |-> sample, learned |-> {},
     result_labels |-> AllLabels(WordsRound, "")]

\* SentencesTab after __init__; ui_qt leaves the first next_words() to a
\* timer, ui_app calls it at once.
NewSentencesTab(tk, sample) ==
    [current_topic |-> "All topics",
     current_words |-> IF tk = "tk" THEN sample ELSE <<>>,
     used_words |-> {}, check_btn |-> TRUE,
     last_matches |-> AllLabels(SentencesRound, "none"),
     result_labels |-> AllLabels(SentencesRound, "")]

\* The round drawn when a tab is built; next_round() / next_words() draw
\* every other sample from there.
FirstRound(k) == SubSeq(Items, 1, Min(k, Len(Items)))

InitUi ==
    /\ op = "init"
    /\ words = <<>>
    /\ sentence = ""
    /\ required_word = ""
    /\ tense = ""
    /\ tres = NoResult
    /\ ures = NoResult
    /\ Idle
    /\ suffix = ""
    /\ ures_suffixed = NoResult
    /\ base_arg = ""
    /\ forms = {}
    /\ threads = <<>>
    /\ module_state = ModuleState
    /\ text_arg = ""
    /\ toks_out = <<>>
    /\ tok_arg = ""
    /\ looks = [v2 |-> FALSE, v3 |-> FALSE]
    /\ toolkit \in {"tk", "qt"}
    /\ nb_tab \in {"words", "sentences"}
    /\ words_tab = NewWordsTab(FirstRound(WordsRound))
    /\ sentences_tab = NewSentencesTab(toolkit, FirstRound(SentencesRound))
    /\ workers = <<>>
    /\ after_queue = <<>>
    /\ applied_on = {}
    /\ apply_error = ""
    /\ ok_keys = {}

\* What no handler of the user interface touches.
UiFrame ==
    /\ UNCHANGED <<words, sentence, required_word, tense, tres, ures, pc,
                   used, tense_ok, tense_msg, response, posts, result>>
    /\ UNCHANGED <<punct_vars, forms_vars, conc_vars, pure_vars, toolkit,
                   nb_tab>>

\* Next Words button, Ctrl+N, or the start-up timer of ui_qt.
SNextWords ==
    /\ nb_tab = "sentences"
    /\ op' = "next_words"
    /\ \E sample \in next_words_samples(sentences_tab) :
          sentences_tab' = next_words(toolkit, sentences_tab, sample)
    /\ UNCHANGED <<words_tab, workers, after_queue, applied_on, apply_error,
                   ok_keys>>
    /\ UiFrame

\* Another topic is selected in the topic box: next_words() follows.
STopicChanged(t) ==
    /\ nb_tab = "sentences"
    /\ t # sentences_tab.current_topic
    /\ op' = "next_words"
    /\ LET tab == [sentences_tab EXCEPT !.current_topic = t]
       IN  \E sample \in next_words_samples(tab) :
              sentences_tab' = next_words(toolkit, tab, sample)
    /\ UNCHANGED <<words_tab, workers, after_queue, applied_on, apply_error,
                   ok_keys>>
    /\ UiFrame

\* SentencesTab.reset_progress(): Refresh Progress button or Ctrl+R.
SResetProgress ==
    /\ nb_tab = "sentences"
    /\ op' = "reset_progress"
    /\ LET tab == [sentences_tab EXCEPT !.used_words = {}]
       IN  \E sample \in next_words_samples(tab) :
              sentences_tab' = next_words(toolkit, tab, sample)
    /\ UNCHANGED <<words_tab, workers, after_queue, applied_on, apply_error,
                   ok_keys>>
    /\ UiFrame

\* SentencesTab.check() with the service online and words on show: by the
\* Check button, which a disabled button does not allow, or by the Enter key.
SCheck(via) ==
    /\ nb_tab = "sentences"
    /\ via = "button" => sentences_tab.check_btn
    /\ sentences_tab.current_words # <<>>
    /\ Len(workers) + Len(after_queue) < MaxWorkers
    /\ op' = "check"
    /\ sentences_tab' = [sentences_tab EXCEPT !.check_btn = FALSE]
    /\ workers' = Append(workers,
           [idx_map |-> [k \in 1..Len(sentences_tab.current_words) |-> k - 1],
            words |-> sentences_tab.current_words])
    /\ UNCHANGED <<words_tab, after_queue, applied_on, apply_error, ok_keys>>
    /\ UiFrame

\* The worker thread i has its results: ui_app posts _apply_check_results
\* to the main loop with after(0, ...), ui_qt calls it where it stands.
WorkerFinish(i, oks) ==
    /\ i \in 1..Len(workers)
    /\ oks \in OkPatterns(Len(workers[i].idx_map))
    /\ op' = "worker"
    /\ workers' = [k \in 1..(Len(workers) - 1) |->
                      IF k < i THEN workers[k] ELSE workers[k + 1]]
    /\ ok_keys' = ok_keys \cup
           {_word_key_sentence(workers[i].words[k]) :
               k \in {j \in 1..Len(oks) : oks[j]}}
    /\ IF toolkit = "tk"
       THEN /\ after_queue' = Append(after_queue,
                   [idx_map |-> workers[i].idx_map, results |-> oks])
            /\ UNCHANGED <<sentences_tab, applied_on, apply_error>>
       ELSE LET r == _apply_check_results(toolkit, sentences_tab,
                                          workers[i].idx_map, oks)
            IN  /\ sentences_tab' = r.tab
                /\ apply_error' = r.error
                /\ applied_on' = applied_on \cup {"worker"}
                /\ UNCHANGED after_queue
    /\ UNCHANGED words_tab
    /\ UiFrame

\* The main loop of ui_app runs the callback posted first.
MainApply ==
    /\ after_queue # <<>>
    /\ op' = "apply"
    /\ LET cb == Head(after_queue)
           r == _apply_check_results(toolkit, sentences_tab, cb.idx_map,
                                     cb.results)
       IN  /\ sentences_tab' = r.tab
           /\ apply_error' = r.error
    /\ applied_on' = applied_on \cup {"main"}
    /\ after_queue' = Tail(after_queue)
    /\ UNCHANGED <<words_tab, workers, ok_keys>>
    /\ UiFrame

\* Next button or Ctrl+N in the words tab.
WNextRound ==
    /\ nb_tab = "words"
    /\ op' = "next_round"
    /\ \E sample \in next_round_samples(words_tab) :
          words_tab' = next_round(toolkit, words_tab, sample)
    /\ UNCHANGED <<sentences_tab, workers, after_queue, applied_on,
                   apply_error, ok_keys>>
    /\ UiFrame

WTopicChanged(t) ==
    /\ nb_tab = "words"
    /\ t # words_tab.current_topic
    /\ op' = "next_round"
    /\ LET tab == [words_tab EXCEPT !.current_topic = t]
       IN  \E sample \in next_round_samples(tab) :
              words_tab' = next_round(toolkit, tab, sample)
    /\ UNCHANGED <<sentences_tab, workers, after_queue, applied_on,
                   apply_error, ok_keys>>
    /\ UiFrame

\* WordsTab.reset_progress()
WResetProgress ==
    /\ nb_tab = "words"
    /\ op' = "reset_progress"
    /\ LET tab == [words_tab EXCEPT !.learned = {}]
       IN  \E sample \in next_round_samples(tab) :
              words_tab' = next_round(toolkit, tab, sample)
    /\ UNCHANGED <<sentences_tab, workers, after_queue, applied_on,
                   apply_error, ok_keys>>
    /\ UiFrame

\* WordsTab.check() with words on show; oks says which answers are right.
\* In ui_app the first configure() on a StringVar ends the handler.
WCheck(oks) ==
    /\ nb_tab = "words"
    /\ words_tab.current # <<>>
    /\ oks \in OkPatterns(Len(words_tab.current))
    /\ op' = "check"
    /\ IF toolkit = "tk"
       THEN /\ words_tab' = [words_tab EXCEPT
                   !.result_labels[1] = IF oks[1] THEN "ok" ELSE "bad"]
            /\ apply_error' = "AttributeError"
       ELSE /\ words_tab' = words_check_from(words_tab, oks, 0)
            /\ apply_error' = ""
    /\ UNCHANGED <<sentences_tab, workers, after_queue, applied_on, ok_keys>>
    /\ UiFrame

\* WordsTab._check_single(idx) of ui_qt: Return pressed in entry idx.
WCheckSingle(idx, ok) ==
    /\ nb_tab = "words"
    /\ toolkit = "qt"
    /\ idx < Len(words_tab.current)
    /\ op' = "check"
    /\ words_tab' = [words_tab EXCEPT
           !.result_labels[idx + 1] = IF ok THEN "ok" ELSE "bad",
           !.learned = IF ok
                       THEN @ \cup {_card_key_words(Get(words_tab.current, idx))}
                       ELSE @]
    /\ UNCHANGED <<sentences_tab, workers, after_queue, applied_on,
                   apply_error, ok_keys>>
    /\ UiFrame

NextUi ==
    \/ SNextWords
    \/ \E t \in Topics : STopicChanged(t)
    \/ SResetProgress
    \/ \E via \in {"button", "enter"} : SCheck(via)
    \/ \E i \in 1..MaxWorkers, oks \in OkPatterns(SentencesRound) \cup
           UNION {OkPatterns(n) : n \in 1..Len(Items)} : WorkerFinish(i, oks)
    \/ MainApply
    \/ WNextRound
    \/ \E t \in Topics : WTopicChanged(t)
    \/ WResetProgress
    \/ \E oks \in UNION {OkPatterns(n) : n \in 1..WordsRound} : WCheck(oks)
    \/ \E idx \in 0..(WordsRound - 1), ok \in BOOLEAN : WCheckSingle(idx, ok)

SpecUi == InitUi /\ [][NextUi]_vars

-----------------------------------------------------------------------------
(* Claims about the user interface *)

\* C24: the results of a sentence check are applied to the tab (used_words,
\* last_matches, result labels, check button) on the main thread only,
\* never on the worker thread, in both user interfaces.
C24_AppliedOnMainThread == applied_on \subseteq {"main"}

\* The check workers started whose results have not been applied yet.
InFlight == Len(workers) + Len(after_queue)

\* C28: at most one check worker is in flight at any time; no Check button
\* and no Enter key starts a second one before the first one's results are
\* applied.
C28_OneWorkerInFlight == InFlight <= 1

\* C29: under every interleaving of check, next_words, topic change and
\* reset_progress with the delivery of check results, used_words holds only
\* keys of words that check_sentence accepted a sentence for, and applying
\* the results never indexes current_words out of range.
C29_OnlyAcceptedWordsUsed ==
    /\ sentences_tab.used_words \subseteq ok_keys
    /\ apply_error # "IndexError"

\* The items of topic sel that are not in done yet, by their keys.
Remaining(sel, key(_), done) ==
    {it \in Range(Items) :
        (sel = "All topics" \/ it.topic = sel) /\ key(it) \notin done}

\* round is made of min(k, remaining) distinct items of pool.
RoundOf(round, k, pool) ==
    /\ Len(round) = Min(k, Cardinality(pool))
    /\ \A i \in DOMAIN round : round[i] \in pool
    /\ \A i, j \in DOMAIN round : i # j => round[i] # round[j]

\* The round on show is right after next_round / next_words, and the set of
\* finished words is empty right after reset_progress.
RoundsRight ==
    /\ (nb_tab = "sentences" /\ op \in {"next_words", "reset_progress"})
       => RoundOf(sentences_tab.current_words, SentencesRound,
                  Remaining(sentences_tab.current_topic, _word_key_sentence,
                            sentences_tab.used_words))
    /\ (nb_tab = "words" /\ op \in {"next_round", "reset_progress"})
       => RoundOf(words_tab.current, WordsRound,
                  Remaining(words_tab.current_topic, _card_key_words,
                            words_tab.learned))
    /\ (nb_tab = "sentences" /\ op = "reset_progress")
       => sentences_tab.used_words = {}
    /\ (nb_tab = "words" /\ op = "reset_progress")
       => words_tab.learned = {}

\* learned and used_words lose nothing except by reset_progress.
OnlyGrows ==
    /\ \/ sentences_tab.used_words \subseteq sentences_tab'.used_words
       \/ op' = "reset_progress"
    /\ \/ words_tab.learned \subseteq words_tab'.learned
       \/ op' = "reset_progress"

\* C30: in both tabs of both user interfaces, after next_round / next_words
\* the round on show is min(k, remaining) distinct items of the selected
\* topic whose key is not in learned / used_words (k = 3 for words, 5 for
\* sentences), and is empty when none remains; learned / used_words only
\* grows between two reset_progress calls and is empty right after one.
C30_Rounds == [](toolkit # "none" => RoundsRight) /\ [][OnlyGrows]_vars

====
